---- MODULE Spec2Model ----
(***************************************************************************)
(* Model of datastar-resilient: the per-element connection controller      *)
(* (Retryer), its default backoff policy (SimpleBackoffCalculator) and the *)
(* fetch interceptor that reports request lifecycle events to it.          *)
(*                                                                         *)
(* One controller on one element is modelled.  Time is a discrete clock    *)
(* (`now`, the value Date.now() returns); setTimeout/setInterval handles   *)
(* are kept in the sets `timers` and `intervals` of the handles the event  *)
(* loop still holds.  `log` is the sequence of calls and dispatches made   *)
(* by the last step; `hist` holds history variables.                       *)
(***************************************************************************)
EXTENDS Integers, Sequences, FiniteSets, TLC

VARIABLES
    options,            \* this.options of the controller
    backoffOptions,     \* parameters SimpleBackoffCalculator was created with
    initialRetryCount,  \* closure variable of SimpleBackoffCalculator
    r,                  \* private fields of the Retryer
    timers,             \* pending setTimeout handles
    intervals,          \* active setInterval handles
    attached,           \* document.body.contains(element)
    ElementIndex,       \* ElementIndex.has(element)
    now,                \* Date.now()
    reqs,               \* intercepted requests attributed to the controller
    log,                \* calls and dispatches of the last step
    hist,               \* history variables
    backoffCall,        \* last direct call of the backoff policy (SpecBackoff)
    FetchIdToElement,   \* ids FetchIdToElement maps to the element
    fetchCounter,       \* counter of wrapFetchAction
    fallbacks,          \* pending clean-up timers of wrapFetchAction
    signals,            \* the caller's AbortSignal of each intercepted call
    sent,               \* what the last step handed to the original function
    resolutions,        \* how often each id has resolved to the element
    stream              \* the body stream of a response behind its transformer

traffic == <<FetchIdToElement, fetchCounter, fallbacks, signals, sent, resolutions>>

vars == <<options, backoffOptions, initialRetryCount, r, timers, intervals,
          attached, ElementIndex, now, reqs, log, hist, backoffCall, traffic,
          stream>>

(***************************************************************************)
(* Bounds of the model.                                                    *)
(***************************************************************************)
MaxTime == 3
MaxRetry == 4
MaxReconnections == 1
MaxInFlight == 2
SomeTimeoutMs == 1
MaxBackoffCalls == 5
MaxUserFetches == 1
\* retries the user policy of the README allows for the initial connection
PolicyN == 2
\* calls of init() made after construction
MaxInits == 1
\* correlation ids wrapFetchAction issues
MaxFetchIds == 2
\* fetch actions dispatched on the element of the controller while every
\* shape of intercepted call is explored
MaxDispatches == 1
\* advances of the clock, each of half the clean-up delay
MaxElapses == 3
\* chunks of one response body
MaxChunks == 2

(***************************************************************************)
(* Values.                                                                 *)
(***************************************************************************)
\* JavaScript null for a timestamp, a timer handle or an abort controller
null == 0 - 1
\* the handle "no timer": this.#retryTimer / #inactivityCheckInterval = null
noHandle == 0
\* `false` as returned by a backoff policy
false == 0 - 1

CONNECT_EVENT == "connect"

CONNECTED_EVENT == "connected"

DISCONNECTED_EVENT == "disconnected"

\* what SendSignal sends for a connection state
SendSignal(state) == "signal:" \o state

\* the symbol only the library holds, and what another caller can pass
\* instead: nothing, or a symbol of its own with the same description
RETRYER_BYPASS_KEY == "Symbol(unsafe)"

ForeignKeys == {"undefined", "Symbol(unsafe)'"}

Statuses == {200, 399, 400, 503}

Slots == 1..MaxInFlight

B2N(b) == IF b THEN 1 ELSE 0

FreeReq == [phase |-> "free", aborted |-> FALSE]

\* the handle setTimeout / setInterval returns: a positive integer not in use
FreshHandle(S) == CHOOSE h \in 1..(Cardinality(S) + 1) : h \notin S

(***************************************************************************)
(* SimpleBackoffCalculator                                                 *)
(***************************************************************************)
DefaultBackoffOptions ==
    [maxInitialAttempts |-> 3, initialDelayMs |-> 20, maxDelayMs |-> 30000,
     baseDelayMs |-> 1000, baseMultiplier |-> 2]

RECURSIVE Pow(_, _)
Pow(b, e) == IF e <= 0 THEN 1 ELSE b * Pow(b, e - 1)

\* Math.max in place of Math.min
Min_Max(a, b) == IF a < b THEN b ELSE a

Min(a, b) == IF a < b THEN a ELSE b

\* the initial branch never giving up
SimpleBackoffCalculator_NoGiveUp(o, irc, retryCount, lastStartTime, reconnections) ==
    IF reconnections = -1
    THEN [ret |-> o.initialDelayMs, irc |-> irc + 1]
    ELSE [ret |-> Min(o.maxDelayMs, o.baseDelayMs * Pow(o.baseMultiplier, retryCount)),
          irc |-> irc]

\* the initial branch giving up one attempt early (>= for >)
SimpleBackoffCalculator_OffByOne(o, irc, retryCount, lastStartTime, reconnections) ==
    IF reconnections = -1
    THEN IF o.maxInitialAttempts > 0 /\ irc + 1 >= o.maxInitialAttempts
         THEN [ret |-> false, irc |-> irc + 1]
         ELSE [ret |-> o.initialDelayMs, irc |-> irc + 1]
    ELSE [ret |-> Min(o.maxDelayMs, o.baseDelayMs * Pow(o.baseMultiplier, retryCount)),
          irc |-> irc]

\* maxInitialAttempts applied to the failures after a connection as well
SimpleBackoffCalculator_GivesUpReconnecting(o, irc, retryCount, lastStartTime, reconnections) ==
    IF reconnections = -1
    THEN IF o.maxInitialAttempts > 0 /\ irc + 1 > o.maxInitialAttempts
         THEN [ret |-> false, irc |-> irc + 1]
         ELSE [ret |-> o.initialDelayMs, irc |-> irc + 1]
    ELSE IF o.maxInitialAttempts > 0 /\ retryCount > o.maxInitialAttempts
    THEN [ret |-> false, irc |-> irc]
    ELSE [ret |-> Min(o.maxDelayMs, o.baseDelayMs * Pow(o.baseMultiplier, retryCount)),
          irc |-> irc]

\* the function SimpleBackoffCalculator returns; irc is initialRetryCount.
\* The result is the returned value and the closure variable afterwards.
SimpleBackoffCalculator(o, irc, retryCount, lastStartTime, reconnections) ==
    IF reconnections = -1
    THEN IF o.maxInitialAttempts > 0 /\ irc + 1 > o.maxInitialAttempts
         THEN [ret |-> false, irc |-> irc + 1]
         ELSE [ret |-> o.initialDelayMs, irc |-> irc + 1]
    ELSE [ret |-> Min(o.maxDelayMs, o.baseDelayMs * Pow(o.baseMultiplier, retryCount)),
          irc |-> irc]

\* the user policy of the README: give up the initial connection after
\* PolicyN retries, exponential backoff otherwise
DocumentedPolicy(retryCount, lastStartTime, reconnections) ==
    IF reconnections = 0 /\ retryCount > PolicyN
    THEN false
    ELSE Min(10000, 1000 * Pow(2, retryCount))

\* this.options.backoffCalculator: the default policy, the user policy of the
\* README, or a user policy that always returns false
backoffCalculator(s, retryCount, lastStartTime, reconnections) ==
    IF options.backoffCalculator = "default"
    THEN SimpleBackoffCalculator(backoffOptions, s.irc, retryCount, lastStartTime,
                                 reconnections)
    ELSE IF options.backoffCalculator = "documented"
    THEN [ret |-> DocumentedPolicy(retryCount, lastStartTime, reconnections),
          irc |-> s.irc]
    ELSE [ret |-> false, irc |-> s.irc]

(***************************************************************************)
(* Retryer.  A handler maps the bundle                                     *)
(*   s = [r, irc, timers, intervals, log, hist]                            *)
(* to the bundle after the call.                                           *)
(***************************************************************************)
Bundle == [r |-> r, irc |-> initialRetryCount, timers |-> timers,
           intervals |-> intervals, log |-> <<>>, hist |-> hist]

Logged(s, op) == [s EXCEPT !.log = Append(@, op)]

\* the event and the signal sent whatever the options say
Announced_Ungated(s, event, state) == Logged(Logged(s, event), SendSignal(state))

\* the opt-in notifications of a state change: the element event when
\* enableConnectionEvents is set, the signal when enableDatastarSignals names
\* a key
Announced(s, event, state) ==
    LET s1 == IF options.enableConnectionEvents THEN Logged(s, event) ELSE s
    IN IF options.enableDatastarSignals # ""
       THEN Logged(s1, SendSignal(state))
       ELSE s1

\* #retryTimer set to null without clearTimeout
clearRetryTimer_HandleOnly(s) ==
    IF s.r.retryTimer # noHandle
    THEN [Logged(s, "clearTimeout") EXCEPT !.r.retryTimer = noHandle]
    ELSE s

clearRetryTimer(s) ==
    IF s.r.retryTimer # noHandle
    THEN [Logged(s, "clearTimeout")
            EXCEPT !.timers = @ \ {s.r.retryTimer}, !.r.retryTimer = noHandle]
    ELSE s

stopInactivityMonitor(s) ==
    IF s.r.inactivityCheckInterval # noHandle
    THEN [Logged(s, "clearInterval")
            EXCEPT !.intervals = @ \ {s.r.inactivityCheckInterval},
                   !.r.inactivityCheckInterval = noHandle]
    ELSE s

\* a new interval started without stopping the one that runs
startInactivityMonitor_NoStop(s) ==
    IF options.inactivityTimeoutMs <= 0
    THEN s
    ELSE LET h == FreshHandle(s.intervals)
         IN [Logged(s, "setInterval")
               EXCEPT !.intervals = @ \cup {h}, !.r.inactivityCheckInterval = h]

startInactivityMonitor(s) ==
    IF options.inactivityTimeoutMs <= 0
    THEN s
    ELSE LET s1 == stopInactivityMonitor(s)
             h == FreshHandle(s1.intervals)
         IN [Logged(s1, "setInterval")
               EXCEPT !.intervals = @ \cup {h}, !.r.inactivityCheckInterval = h]

setAbortController(s, controller) == [s EXCEPT !.r.abortController = controller]

trackSSE(s) ==
    IF options.inactivityTimeoutMs > 0
    THEN [Logged(s, "trackSSE") EXCEPT !.r.lastSSETime = now]
    ELSE Logged(s, "trackSSE")

\* a started notification that never reaches the controller
notifyRequestStarted_Skipped(s) == s

\* a started notification that does not refresh the inactivity baseline
notifyRequestStarted_NoBaseline(s) ==
    LET s1 == [Logged(s, "notifyRequestStarted") EXCEPT !.r.lastStartTime = now]
    IN startInactivityMonitor(clearRetryTimer(s1))

notifyRequestStarted(s) ==
    LET s1 == [Logged(s, "notifyRequestStarted")
                 EXCEPT !.r.lastSSETime = now, !.r.lastStartTime = now]
    IN startInactivityMonitor(clearRetryTimer(s1))

\* 400 itself not counted as a failure (> for >=)
isFailedRequest_Above400(status) == status > 400

isFailedRequest(status) == status >= 400

\* a connected notification that does not count the connection
notifyRequestConnected_NoCount(s) ==
    LET s1 == [Logged(s, "notifyRequestConnected")
                 EXCEPT !.r.connected = TRUE, !.r.retryCount = 0,
                        !.hist.stopped = FALSE, !.hist.connectEvents = 0]
    IN Announced(clearRetryTimer(s1), CONNECTED_EVENT, "connected")

\* a connected notification that leaves the reconnect timer pending
notifyRequestConnected_KeepsTimer(s) ==
    LET s1 == [Logged(s, "notifyRequestConnected")
                 EXCEPT !.r.connected = TRUE, !.r.retryCount = 0,
                        !.r.reconnections = @ + 1,
                        !.hist.stopped = FALSE, !.hist.connectEvents = 0]
    IN Announced(s1, CONNECTED_EVENT, "connected")

notifyRequestConnected(s) ==
    LET s1 == [Logged(s, "notifyRequestConnected")
                 EXCEPT !.r.connected = TRUE, !.r.retryCount = 0,
                        !.r.reconnections = @ + 1,
                        !.hist.stopped = FALSE, !.hist.connectEvents = 0]
    IN Announced(clearRetryTimer(s1), CONNECTED_EVENT, "connected")

\* the timer callback dispatching nothing
fireConnect_Silent(s) == s

fireConnect(s) ==
    IF s.r.connected
    THEN s
    ELSE LET s1 == [Logged(s, CONNECT_EVENT)
                      EXCEPT !.hist.connectEvents = @ + 1,
                             !.hist.pendingConnect = @ + 1]
         IN IF options.enableDatastarSignals # ""
            THEN Logged(s1, SendSignal("connecting"))
            ELSE s1

RECURSIVE notifyRequestStopped(_, _)

\* the scheduler asking the policy without incrementing #retryCount
scheduleReconnect_NoCount(s) ==
    IF s.r.retryTimer # noHandle
    THEN s
    ELSE IF ~attached
    THEN s
    ELSE LET rc == s.r.retryCount
             d == backoffCalculator(s, rc, s.r.lastStartTime, s.r.reconnections)
             s1 == [Logged(s, IF d.ret = false THEN "backoffCalculator:false"
                                               ELSE "backoffCalculator:delay")
                      EXCEPT !.r.retryCount = rc, !.irc = d.irc]
             h == FreshHandle(s1.timers)
         IN IF d.ret = false
            THEN notifyRequestStopped(s1, FALSE)
            ELSE [Logged(s1, "setTimeout")
                    EXCEPT !.timers = @ \cup {h}, !.r.retryTimer = h]

\* the scheduler without the test that the element is in the document
scheduleReconnect_NoDomCheck(s) ==
    IF s.r.retryTimer # noHandle
    THEN s
    ELSE LET rc == s.r.retryCount + 1
             d == backoffCalculator(s, rc, s.r.lastStartTime, s.r.reconnections)
             s1 == [Logged(s, IF d.ret = false THEN "backoffCalculator:false"
                                               ELSE "backoffCalculator:delay")
                      EXCEPT !.r.retryCount = rc, !.irc = d.irc]
             h == FreshHandle(s1.timers)
         IN IF d.ret = false
            THEN notifyRequestStopped(s1, FALSE)
            ELSE [Logged(s1, "setTimeout")
                    EXCEPT !.timers = @ \cup {h}, !.r.retryTimer = h]

\* the scheduler without its "already retrying" guard
scheduleReconnect_NoGuard(s) ==
    IF ~attached
    THEN s
    ELSE LET rc == s.r.retryCount + 1
             d == backoffCalculator(s, rc, s.r.lastStartTime, s.r.reconnections)
             s1 == [Logged(s, IF d.ret = false THEN "backoffCalculator:false"
                                               ELSE "backoffCalculator:delay")
                      EXCEPT !.r.retryCount = rc, !.irc = d.irc]
             h == FreshHandle(s1.timers)
         IN IF d.ret = false
            THEN notifyRequestStopped(s1, FALSE)
            ELSE [Logged(s1, "setTimeout")
                    EXCEPT !.timers = @ \cup {h}, !.r.retryTimer = h]

\* the scheduler passing whatever the policy returned to setTimeout, false
\* included
scheduleReconnect_IgnoreFalse(s) ==
    IF s.r.retryTimer # noHandle
    THEN s
    ELSE IF ~attached
    THEN s
    ELSE LET rc == s.r.retryCount + 1
             d == backoffCalculator(s, rc, s.r.lastStartTime, s.r.reconnections)
             s1 == [Logged(s, IF d.ret = false THEN "backoffCalculator:false"
                                               ELSE "backoffCalculator:delay")
                      EXCEPT !.r.retryCount = rc, !.irc = d.irc]
             h == FreshHandle(s1.timers)
         IN [Logged(s1, "setTimeout")
               EXCEPT !.timers = @ \cup {h}, !.r.retryTimer = h]

scheduleReconnect(s) ==
    IF s.r.retryTimer # noHandle
    THEN s
    ELSE IF ~attached
    THEN s
    ELSE LET rc == s.r.retryCount + 1
             d == backoffCalculator(s, rc, s.r.lastStartTime, s.r.reconnections)
             s1 == [Logged(s, IF d.ret = false THEN "backoffCalculator:false"
                                               ELSE "backoffCalculator:delay")
                      EXCEPT !.r.retryCount = rc, !.irc = d.irc]
             h == FreshHandle(s1.timers)
         IN IF d.ret = false
            THEN notifyRequestStopped(s1, FALSE)
            ELSE [Logged(s1, "setTimeout")
                    EXCEPT !.timers = @ \cup {h}, !.r.retryTimer = h]

\* a stopped notification that leaves the abort controller stored
notifyRequestStopped_KeepsHandle(s, retry) ==
    LET s1 == stopInactivityMonitor(
                [Logged(s, IF retry THEN "notifyRequestStopped(retry)"
                                   ELSE "notifyRequestStopped(final)")
                   EXCEPT !.r.connected = FALSE, !.r.lastSSETime = null])
       s2 == Announced(s1, DISCONNECTED_EVENT, "disconnected")
    IN IF retry THEN scheduleReconnect(s2) ELSE s2

notifyRequestStopped(s, retry) ==
    LET s1 == stopInactivityMonitor(
                [Logged(s, IF retry THEN "notifyRequestStopped(retry)"
                                   ELSE "notifyRequestStopped(final)")
                   EXCEPT !.r.abortController = null, !.r.connected = FALSE,
                          !.r.lastSSETime = null])
       s2 == Announced(s1, DISCONNECTED_EVENT, "disconnected")
    IN IF retry THEN scheduleReconnect(s2) ELSE s2

(***************************************************************************)
(* Construction: the field initialisers, then init().                      *)
(***************************************************************************)
NewFields ==
    [lastStartTime |-> null, retryCount |-> 0, retryTimer |-> noHandle,
     connected |-> FALSE, lastSSETime |-> null, abortController |-> null,
     reconnections |-> -1, inactivityCheckInterval |-> noHandle]

NewHist ==
    [connectEvents |-> 0, pendingConnect |-> 0, undisturbed |-> TRUE,
     stopped |-> FALSE, userFetches |-> 0, chunked |-> FALSE, inits |-> 0]

\* a constructor that does not call init()
Constructed_NoInit ==
    [r |-> NewFields, irc |-> 0, timers |-> {}, intervals |-> {},
     log |-> <<"constructor">>, hist |-> NewHist]

Constructed ==
    notifyRequestStopped(
        [r |-> NewFields, irc |-> 0, timers |-> {}, intervals |-> {},
         log |-> <<"constructor">>, hist |-> NewHist],
        TRUE)

\* a caller's signal: where it was supplied (init.signal, the signal of a
\* Request object, or nowhere), whether it has aborted, and whether the
\* interceptor listens to it
NoSignal == [place |-> "none", aborted |-> FALSE, forwarded |-> FALSE]

NothingSent ==
    [to |-> "none", why |-> "none", carried |-> 0, header |-> 0,
     modified |-> FALSE, network |-> FALSE, retryMaxCount |-> null,
     outcome |-> "none", result |-> "none"]

\* no action dispatched and no fetch called yet
NoTraffic ==
    /\ FetchIdToElement = {}
    /\ fetchCounter = 0
    /\ fallbacks = {}
    /\ signals = [i \in Slots |-> NoSignal]
    /\ sent = NothingSent
    /\ resolutions = [id \in 1..MaxFetchIds |-> 0]

\* options.dataInterceptor is not set and no chunk has arrived
NoStream == [dataInterceptor |-> "none", arrived |-> <<>>, enqueued |-> <<>>,
             errored |-> FALSE]

\* no direct call of the policy has been made
NoBackoffCall ==
    [retryCount |-> 0, lastStartTime |-> null, reconnections |-> 0, ret |-> 0,
     calls |-> 0, initialCalls |-> 0, prevRetryCount |-> null, prevRet |-> 0]

Init ==
    /\ options \in [inactivityTimeoutMs : {0, SomeTimeoutMs},
                    backoffCalculator : {"default", "alwaysFalse"},
                    enableConnectionEvents : {FALSE},
                    enableDatastarSignals : {""}]
    /\ backoffOptions = DefaultBackoffOptions
    /\ attached \in BOOLEAN
    /\ ElementIndex = TRUE
    /\ now = 0
    /\ reqs = [i \in Slots |-> FreeReq]
    /\ r = Constructed.r
    /\ initialRetryCount = Constructed.irc
    /\ timers = Constructed.timers
    /\ intervals = Constructed.intervals
    /\ log = Constructed.log
    /\ hist = [Constructed.hist EXCEPT !.undisturbed = attached]
    /\ backoffCall = NoBackoffCall
    /\ NoTraffic
    /\ stream = NoStream

\* the bundle a handler returned becomes the next state
Becomes(s) ==
    /\ r' = s.r
    /\ initialRetryCount' = s.irc
    /\ timers' = s.timers
    /\ intervals' = s.intervals
    /\ log' = s.log
    /\ hist' = s.hist

Fixed ==
    /\ UNCHANGED <<options, backoffOptions, backoffCall, FetchIdToElement,
                   fetchCounter, fallbacks, signals, resolutions, stream>>
    /\ sent' = NothingSent

(***************************************************************************)
(* The interceptor (window.fetch) and the environment.                     *)
(***************************************************************************)
FreeSlot == CHOOSE i \in Slots : reqs[i].phase = "free"

\* AbortController.abort() of the request in slot c (no effect on a request
\* that is over)
Abort(q, c) ==
    IF c \in Slots /\ q[c].phase # "free"
    THEN [q EXCEPT ![c].aborted = TRUE]
    ELSE q

\* window.fetch up to its await: the call resolves to the controller, which is
\* notified "started" and handed the call's abort controller
Intercept(user) ==
    /\ attached
    /\ ElementIndex
    /\ \E i \in Slots : reqs[i].phase = "free"
    /\ LET i == FreeSlot
           s0 == [Bundle EXCEPT !.hist.pendingConnect = IF user THEN @ ELSE @ - 1,
                                !.hist.undisturbed = @ /\ ~user,
                                !.hist.userFetches = @ + B2N(user),
                                !.hist.chunked = FALSE]
           s1 == setAbortController(notifyRequestStarted(s0), i)
       IN /\ Becomes(s1)
          /\ reqs' = [reqs EXCEPT ![i] = [phase |-> "pending", aborted |-> FALSE]]
    /\ UNCHANGED <<attached, ElementIndex, now>>
    /\ Fixed

\* the element's handler of the connect event issues the request
ConnectFetch ==
    /\ hist.pendingConnect > 0
    /\ Intercept(FALSE)

\* any other action on the element issues a request
UserFetch ==
    /\ hist.userFetches < MaxUserFetches
    /\ Intercept(TRUE)

\* a catch block that notifies stopped and swallows the error
Caught_Swallowed(s) == [notifyRequestStopped(s, TRUE) EXCEPT !.hist.stopped = TRUE]

\* the catch block: stopped is notified, with retry, and the error is thrown
\* on to the caller of fetch
Caught(s) ==
    Logged([notifyRequestStopped(s, TRUE) EXCEPT !.hist.stopped = TRUE], "throw e")

\* originalFetch rejects: a network error, or the abort of the request
FetchReject(i) ==
    /\ reqs[i].phase = "pending"
    /\ r.retryCount < MaxRetry
    /\ Becomes(Caught(Bundle))
    /\ reqs' = [reqs EXCEPT ![i] = FreeReq]
    /\ UNCHANGED <<attached, ElementIndex, now>>
    /\ Fixed

\* originalFetch resolves with a response: the failure predicate rejects it
\* (the request is aborted and the error is caught), or the controller is
\* notified "connected" and the body, if any, is streamed
FetchResolve(i, status, body) ==
    /\ reqs[i].phase = "pending"
    /\ ~reqs[i].aborted
    /\ IF isFailedRequest(status)
       THEN /\ r.retryCount < MaxRetry
            /\ Becomes(Caught(Logged(Bundle, "abort")))
            /\ reqs' = [reqs EXCEPT ![i] = FreeReq]
       ELSE /\ r.reconnections < MaxReconnections
            /\ Becomes(notifyRequestConnected(Bundle))
            /\ reqs' = [reqs EXCEPT ![i] =
                            IF body THEN [phase |-> "streaming", aborted |-> FALSE]
                            ELSE FreeReq]
    /\ UNCHANGED <<attached, ElementIndex, now>>
    /\ Fixed

\* fetchStreamTransformer.transform: a chunk of the body arrives
Chunk(i) ==
    /\ reqs[i].phase = "streaming"
    /\ ~reqs[i].aborted
    /\ Becomes([trackSSE(Bundle) EXCEPT !.hist.chunked = TRUE])
    /\ UNCHANGED <<attached, ElementIndex, now, reqs>>
    /\ Fixed

\* the body stream closes or errors (the connection is lost, or the request
\* was aborted): the transformer has no handler for it
StreamEnd(i) ==
    /\ reqs[i].phase = "streaming"
    /\ Becomes(Bundle)
    /\ reqs' = [reqs EXCEPT ![i] = FreeReq]
    /\ UNCHANGED <<attached, ElementIndex, now>>
    /\ Fixed

\* the comparison the wrong way round
inactive_Reversed(lastSSETime) ==
    /\ lastSSETime # null
    /\ now - lastSSETime < options.inactivityTimeoutMs

\* the test of the inactivity check: data was awaited and none came for
\* longer than the timeout
inactive(lastSSETime) ==
    /\ lastSSETime # null
    /\ now - lastSSETime > options.inactivityTimeoutMs

\* the callback of the interval of #startInactivityMonitor
InactivityCheck(h) ==
    /\ h \in intervals
    /\ LET s0 == Bundle
           expired == inactive(r.lastSSETime)
           controller == r.abortController
           s1 == IF controller = null
                 THEN s0
                 ELSE Logged([s0 EXCEPT !.r.abortController = null], "abort")
       IN IF expired
          THEN /\ r.retryCount < MaxRetry
               /\ Becomes([notifyRequestStopped(s1, TRUE) EXCEPT !.hist.stopped = TRUE])
               /\ reqs' = Abort(reqs, controller)
          ELSE /\ Becomes(s0)
               /\ reqs' = reqs
    /\ UNCHANGED <<attached, ElementIndex, now>>
    /\ Fixed

\* the callback leaving the handle of the fired timer in #retryTimer
retryTimerCallback_KeepsHandle(s, t) == fireConnect([s EXCEPT !.timers = @ \ {t}])

\* the function #scheduleReconnect hands to setTimeout: the one-shot timer t
\* is spent, #retryTimer is cleared and #fireConnect runs
retryTimerCallback(s, t) ==
    fireConnect([s EXCEPT !.timers = @ \ {t}, !.r.retryTimer = noHandle])

\* the callback of the timer of #scheduleReconnect
TimerFire(t) ==
    /\ t \in timers
    /\ Becomes(retryTimerCallback(Bundle, t))
    /\ UNCHANGED <<attached, ElementIndex, now, reqs>>
    /\ Fixed

\* destroy() that removes the controller from the index and leaves its timers
destroy_OnlyDeregisters ==
    /\ Becomes([Logged(Bundle, "destroy") EXCEPT !.hist.undisturbed = FALSE])
    /\ ElementIndex' = FALSE
    /\ UNCHANGED <<attached, now, reqs>>
    /\ Fixed

destroy ==
    /\ Becomes([stopInactivityMonitor(clearRetryTimer(Logged(Bundle, "destroy")))
                 EXCEPT !.hist.undisturbed = FALSE])
    /\ ElementIndex' = FALSE
    /\ UNCHANGED <<attached, now, reqs>>
    /\ Fixed

\* the clock advances; it is read only by the inactivity monitor, so its
\* advance is modelled while a monitor runs and until the time since the last
\* data exceeds the timeout (a longer silence is decided the same way)
Tick ==
    /\ intervals # {}
    /\ r.lastSSETime = null \/ now - r.lastSSETime <= options.inactivityTimeoutMs
    /\ now < MaxTime
    /\ now' = now + 1
    /\ log' = <<>>
    /\ UNCHANGED <<r, initialRetryCount, timers, intervals, hist, attached,
                   ElementIndex, reqs>>
    /\ Fixed

Detach ==
    /\ attached
    /\ attached' = FALSE
    /\ log' = <<>>
    /\ hist' = [hist EXCEPT !.undisturbed = FALSE]
    /\ UNCHANGED <<r, initialRetryCount, timers, intervals, ElementIndex, now, reqs>>
    /\ Fixed

Attach ==
    /\ ~attached
    /\ attached' = TRUE
    /\ log' = <<>>
    /\ UNCHANGED <<r, initialRetryCount, timers, intervals, hist, ElementIndex, now, reqs>>
    /\ Fixed

Next ==
    \/ ConnectFetch
    \/ UserFetch
    \/ \E i \in Slots : FetchReject(i)
    \/ \E i \in Slots, status \in Statuses, body \in BOOLEAN : FetchResolve(i, status, body)
    \/ \E i \in Slots : Chunk(i)
    \/ \E i \in Slots : StreamEnd(i)
    \/ \E h \in intervals : InactivityCheck(h)
    \/ \E t \in timers : TimerFire(t)
    \/ destroy
    \/ Tick
    \/ Detach
    \/ Attach

Spec == Init /\ [][Next]_vars

\* The event loop runs the callback of every pending timer and of every
\* active interval, and a fetch that was aborted settles.
FairSpec ==
    /\ Spec
    /\ WF_vars(\E t \in timers : TimerFire(t))
    /\ WF_vars(\E h \in intervals : InactivityCheck(h))
    /\ WF_vars(\E i \in Slots : reqs[i].aborted /\ (FetchReject(i) \/ StreamEnd(i)))

(***************************************************************************)
(* The public surface of the controller: init() and the methods that take  *)
(* the key, called by code outside the library; and a wider choice of      *)
(* options.                                                                *)
(***************************************************************************)
\* #checkKey passes (it throws otherwise)
checkKey(key) == key = RETRYER_BYPASS_KEY

SensitiveMethods ==
    {"setAbortController", "trackSSE", "notifyRequestStarted", "isFailedRequest",
     "notifyRequestConnected", "notifyRequestStopped"}

\* the body of method m after its key check
Sensitive(m, s) ==
    CASE m = "setAbortController" -> setAbortController(s, null)
      [] m = "trackSSE" -> trackSSE(s)
      [] m = "notifyRequestStarted" -> notifyRequestStarted(s)
      [] m = "isFailedRequest" -> s
      [] m = "notifyRequestConnected" -> notifyRequestConnected(s)
      [] m = "notifyRequestStopped" -> notifyRequestStopped(s, TRUE)

\* code outside the library calls method m with a key of its own
ExternalCall(m, key) ==
    /\ Becomes(IF checkKey(key) THEN Sensitive(m, Bundle) ELSE Logged(Bundle, "throw"))
    /\ UNCHANGED <<attached, ElementIndex, now, reqs>>
    /\ Fixed

\* code outside the library calls init(), which takes no key
init ==
    /\ hist.inits < MaxInits
    /\ r.retryCount < MaxRetry
    /\ Becomes([notifyRequestStopped(Logged(Bundle, "call:init"), TRUE)
                  EXCEPT !.hist.undisturbed = FALSE, !.hist.stopped = TRUE,
                         !.hist.inits = @ + 1])
    /\ ElementIndex' = TRUE
    /\ UNCHANGED <<attached, now, reqs>>
    /\ Fixed

ApiOptions ==
    {[inactivityTimeoutMs |-> 0, backoffCalculator |-> "default",
      enableConnectionEvents |-> TRUE, enableDatastarSignals |-> "connectionState"],
     [inactivityTimeoutMs |-> 0, backoffCalculator |-> "default",
      enableConnectionEvents |-> FALSE, enableDatastarSignals |-> ""],
     [inactivityTimeoutMs |-> 0, backoffCalculator |-> "documented",
      enableConnectionEvents |-> TRUE, enableDatastarSignals |-> ""],
     [inactivityTimeoutMs |-> SomeTimeoutMs, backoffCalculator |-> "alwaysFalse",
      enableConnectionEvents |-> FALSE, enableDatastarSignals |-> "connectionState"]}

InitApi ==
    /\ options \in ApiOptions
    /\ backoffOptions = DefaultBackoffOptions
    /\ attached = TRUE
    /\ ElementIndex = TRUE
    /\ now = 0
    /\ reqs = [i \in Slots |-> FreeReq]
    /\ r = Constructed.r
    /\ initialRetryCount = Constructed.irc
    /\ timers = Constructed.timers
    /\ intervals = Constructed.intervals
    /\ log = Constructed.log
    /\ hist = Constructed.hist
    /\ backoffCall = NoBackoffCall
    /\ NoTraffic
    /\ stream = NoStream

NextApi ==
    \/ Next
    \/ init
    \/ \E m \in SensitiveMethods, key \in ForeignKeys : ExternalCall(m, key)

SpecApi == InitApi /\ [][NextApi]_vars

(***************************************************************************)
(* The way into the interceptor: wrapFetchAction stamps a correlation id   *)
(* on the action of an element that has a controller, window.fetch         *)
(* resolves the id to the controller (getRetryer), chains the caller's     *)
(* abort signal and calls the original fetch.                              *)
(***************************************************************************)
FetchIds == 1..MaxFetchIds

\* the delay of the clean-up timer of wrapFetchAction
FallbackDelayMs == 5000

ClockStep == FallbackDelayMs \div 2

\* init.headers: absent (null), present without X-Fetch-Id (0), or carrying
\* the id k
InitHeaders == {null, 0} \cup FetchIds

\* X-Fetch-Id in the headers of a Request object: none (0) or the id k
RequestHeaders == {0} \cup FetchIds

\* every element taken to have a controller
hasRetryer_Always(el) == TRUE

\* !!ElementIndex.get(ctx.el): "el" is the element of the controller, any
\* other element has none
hasRetryer(el) == el = "el" /\ ElementIndex

\* the entry left in place
Consumed_Kept(map, id) == map

\* FetchIdToElement.delete(fetchId)
Consumed(map, id) == map \ {id}

\* getRetryer: the id looked up in init.headers first, then in the headers of
\* a Request object; the header removed from init.headers only; the entry
\* consumed; and the reason why no controller is returned, if none is
getRetryer(resource, initHeaders, requestHeaders) ==
    LET fromInit == initHeaders > 0
        fetchId == IF fromInit THEN initHeaders
                   ELSE IF resource = "request" /\ requestHeaders > 0
                   THEN requestHeaders
                   ELSE 0
        element == fetchId \in FetchIdToElement
    IN [why |-> IF fetchId = 0 THEN "noId"
                ELSE IF ~element THEN "noElement"
                ELSE IF ~attached THEN "detached"
                ELSE IF ~ElementIndex THEN "noRetryer"
                ELSE "managed",
        fetchId |-> fetchId,
        element |-> element,
        initHeaders |-> IF fromInit THEN 0 ELSE initHeaders,
        map |-> IF fetchId = 0 THEN FetchIdToElement
                ELSE Consumed(FetchIdToElement, fetchId)]

\* X-Fetch-Id of the request the original fetch builds from (resource, init):
\* init.headers, when present, replace the headers of a Request object
OnTheWire(resource, initHeaders, requestHeaders) ==
    IF initHeaders # null THEN initHeaders
    ELSE IF resource = "request" THEN requestHeaders
    ELSE 0

\* window.fetch(resource, init) up to the call of the original fetch; the
\* caller's signal is in init.signal, in the Request object, or nowhere
WindowFetch(resource, initHeaders, requestHeaders, place, aborted) ==
    /\ resource = "url" => (requestHeaders = 0 /\ place # "request")
    /\ place = "none" => ~aborted
    /\ LET g == getRetryer(resource, initHeaders, requestHeaders)
           header == OnTheWire(resource, g.initHeaders, requestHeaders)
           i == FreeSlot
           chained == place = "init"
       IN /\ FetchIdToElement' = g.map
          /\ resolutions' = IF g.element
                            THEN [resolutions EXCEPT ![g.fetchId] = @ + 1]
                            ELSE resolutions
          /\ IF g.why # "managed"
             THEN /\ Becomes(Logged(Bundle, "originalFetch"))
                  /\ sent' = [to |-> "originalFetch", why |-> g.why,
                              carried |-> g.fetchId, header |-> header,
                              modified |-> g.initHeaders # initHeaders,
                              network |-> ~aborted, retryMaxCount |-> null,
                              outcome |-> "none", result |-> "none"]
                  /\ UNCHANGED <<reqs, signals>>
             ELSE /\ \E j \in Slots : reqs[j].phase = "free"
                  /\ Becomes(Logged(setAbortController(notifyRequestStarted(Bundle), i),
                                    "originalFetch"))
                  /\ reqs' = [reqs EXCEPT ![i] = [phase |-> "pending",
                                                  aborted |-> chained /\ aborted]]
                  /\ signals' = [signals EXCEPT ![i] =
                                    [place |-> place, aborted |-> aborted,
                                     forwarded |-> chained /\ ~aborted]]
                  /\ sent' = [to |-> "originalFetch", why |-> g.why,
                              carried |-> g.fetchId, header |-> header,
                              modified |-> TRUE,
                              network |-> ~(chained /\ aborted),
                              retryMaxCount |-> null,
                              outcome |-> "none", result |-> "none"]
    /\ UNCHANGED <<attached, ElementIndex, now, fetchCounter, fallbacks, options,
                   backoffOptions, backoffCall, stream>>

\* the caller aborts the signal it supplied with call i; the listener the
\* interceptor registered on init.signal aborts the internal controller
CallerAbort(i) ==
    /\ reqs[i].phase # "free"
    /\ signals[i].place # "none"
    /\ ~signals[i].aborted
    /\ signals' = [signals EXCEPT ![i].aborted = TRUE]
    /\ reqs' = IF signals[i].forwarded THEN Abort(reqs, i) ELSE reqs
    /\ log' = <<"callerAbort">>
    /\ sent' = NothingSent
    /\ UNCHANGED <<r, initialRetryCount, timers, intervals, hist, attached,
                   ElementIndex, now, options, backoffOptions, backoffCall, stream,
                   FetchIdToElement, fetchCounter, fallbacks, resolutions>>

\* how the original action settles: it resolves with a value, rejects with
\* an error whose message starts with "FetchFailed", or rejects with another
\* error
Outcomes == {"value", "FetchFailed", "error"}

\* a catch block that swallows every error
suppress_All(outcome) == IF outcome = "value" THEN "value" ELSE "undefined"

\* the try/catch around the original action: what the wrapped action hands
\* to its caller
suppress(outcome) == IF outcome = "FetchFailed" THEN "undefined" ELSE outcome

\* a counter that starts again at 1
nextFetchId_Reset(counter) == 1

\* ++fetchCounter
nextFetchId(counter) == counter + 1

\* wrapFetchAction: a fetch action of Datastar runs on element el, and the
\* original action settles
Dispatch(el, outcome) ==
    /\ IF ~hasRetryer(el)
       THEN /\ sent' = [to |-> "originalAction", why |-> "noRetryer", carried |-> 0,
                        header |-> 0, modified |-> FALSE, network |-> FALSE,
                        retryMaxCount |-> null, outcome |-> outcome,
                        result |-> outcome]
            /\ UNCHANGED <<FetchIdToElement, fetchCounter, fallbacks>>
       ELSE /\ fetchCounter < MaxFetchIds
            /\ fetchCounter' = nextFetchId(fetchCounter)
            /\ FetchIdToElement' = FetchIdToElement \cup {fetchCounter'}
            /\ fallbacks' = fallbacks \cup
                              {[id |-> fetchCounter', due |-> now + FallbackDelayMs]}
            /\ sent' = [to |-> "originalAction", why |-> "managed",
                        carried |-> fetchCounter', header |-> fetchCounter',
                        modified |-> TRUE, network |-> FALSE,
                        retryMaxCount |-> 0, outcome |-> outcome,
                        result |-> suppress(outcome)]
    /\ log' = <<"originalAction:" \o el>>
    /\ UNCHANGED <<r, initialRetryCount, timers, intervals, hist, attached,
                   ElementIndex, now, reqs, options, backoffOptions, backoffCall, stream,
                   signals, resolutions>>

\* the clean-up timer of wrapFetchAction fires
FallbackTimer(f) ==
    /\ f \in fallbacks
    /\ now >= f.due
    /\ fallbacks' = fallbacks \ {f}
    /\ FetchIdToElement' = FetchIdToElement \ {f.id}
    /\ log' = <<"fallback">>
    /\ sent' = NothingSent
    /\ UNCHANGED <<r, initialRetryCount, timers, intervals, hist, attached,
                   ElementIndex, now, reqs, options, backoffOptions, backoffCall, stream,
                   fetchCounter, signals, resolutions>>

\* time passes, up to the instant the next clean-up timer is due
Elapse ==
    /\ now < MaxElapses * ClockStep
    /\ \A f \in fallbacks : now + ClockStep <= f.due
    /\ now' = now + ClockStep
    /\ log' = <<>>
    /\ sent' = NothingSent
    /\ UNCHANGED <<r, initialRetryCount, timers, intervals, hist, attached,
                   ElementIndex, reqs, options, backoffOptions, backoffCall, stream,
                   FetchIdToElement, fetchCounter, fallbacks, signals, resolutions>>

InitIntercept ==
    /\ options = [inactivityTimeoutMs |-> 0, backoffCalculator |-> "default",
                  enableConnectionEvents |-> FALSE, enableDatastarSignals |-> ""]
    /\ backoffOptions = DefaultBackoffOptions
    /\ attached = TRUE
    /\ ElementIndex = TRUE
    /\ now = 0
    /\ reqs = [i \in Slots |-> FreeReq]
    /\ r = Constructed.r
    /\ initialRetryCount = Constructed.irc
    /\ timers = Constructed.timers
    /\ intervals = Constructed.intervals
    /\ log = Constructed.log
    /\ hist = Constructed.hist
    /\ backoffCall = NoBackoffCall
    /\ NoTraffic
    /\ stream = NoStream

NextIntercept ==
    \/ \E el \in {"el", "bare"}, outcome \in Outcomes :
          /\ hasRetryer(el) => fetchCounter < MaxDispatches
          /\ Dispatch(el, outcome)
    \/ \E resource \in {"url", "request"}, initHeaders \in InitHeaders,
          requestHeaders \in RequestHeaders, place \in {"none", "init", "request"},
          aborted \in BOOLEAN :
            WindowFetch(resource, initHeaders, requestHeaders, place, aborted)
    \/ \E i \in Slots : CallerAbort(i)
    \/ \E f \in fallbacks : FallbackTimer(f)
    \/ Elapse
    \/ destroy
    \/ Detach
    \/ Attach

SpecIntercept == InitIntercept /\ [][NextIntercept]_vars

\* Several fetch actions, each followed or not by the call that carries its
\* id, with the clean-up timers.
NextIds ==
    \/ \E el \in {"el", "bare"} : Dispatch(el, "value")
    \/ \E id \in FetchIds : WindowFetch("url", id, 0, "none", FALSE)
    \/ \E f \in fallbacks : FallbackTimer(f)
    \/ Elapse

SpecIds == InitIntercept /\ [][NextIds]_vars

(***************************************************************************)
(* The body of a response: fetchStreamTransformer passes every chunk       *)
(* through options.dataInterceptor and enqueues the result.                *)
(***************************************************************************)
Chunks == {"a", "b"}

\* the hooks a user can set as options.dataInterceptor: none, or a function
\* that returns undefined, null, a new chunk, the empty string, a new chunk
\* for some chunks only, or that throws
DataInterceptors ==
    {"none", "undefined", "null", "replace", "empty", "selective", "throws"}

\* what the hook of the given kind returns for a chunk
dataInterceptor(kind, chunk) ==
    CASE kind = "undefined" -> "undefined"
      [] kind = "null" -> "null"
      [] kind = "replace" -> "data:" \o chunk
      [] kind = "empty" -> ""
      [] kind = "selective" -> IF chunk = "a" THEN "undefined" ELSE "data:" \o chunk

\* v || chunk: every falsy value replaced by the chunk
Coalesce_Or(v, chunk) == IF v \in {"undefined", "null", ""} THEN chunk ELSE v

\* v ?? chunk
Coalesce(v, chunk) == IF v \in {"undefined", "null"} THEN chunk ELSE v

\* transform(chunk, controller) of the TransformStream, on the stream st:
\* the chunk the hook returned, or the chunk itself, is enqueued; a hook that
\* throws errors the stream
transform(st, chunk) ==
    IF st.dataInterceptor = "throws"
    THEN [st EXCEPT !.arrived = Append(@, chunk), !.errored = TRUE]
    ELSE LET out == IF st.dataInterceptor = "none"
                    THEN chunk
                    ELSE Coalesce(dataInterceptor(st.dataInterceptor, chunk), chunk)
         IN [st EXCEPT !.arrived = Append(@, chunk), !.enqueued = Append(@, out)]

\* a chunk of the body of request i arrives at the transformer
Transform(i, chunk) ==
    /\ reqs[i].phase = "streaming"
    /\ ~reqs[i].aborted
    /\ ~stream.errored
    /\ Len(stream.arrived) < MaxChunks
    /\ Becomes([trackSSE(Bundle) EXCEPT !.hist.chunked = TRUE])
    /\ stream' = transform(stream, chunk)
    /\ sent' = NothingSent
    /\ UNCHANGED <<attached, ElementIndex, now, reqs, options, backoffOptions,
                   backoffCall, FetchIdToElement, fetchCounter, fallbacks, signals,
                   resolutions>>

InitStream ==
    /\ options \in [inactivityTimeoutMs : {0, SomeTimeoutMs},
                    backoffCalculator : {"default"},
                    enableConnectionEvents : {FALSE},
                    enableDatastarSignals : {""}]
    /\ backoffOptions = DefaultBackoffOptions
    /\ attached = TRUE
    /\ ElementIndex = TRUE
    /\ now = 0
    /\ reqs = [i \in Slots |-> FreeReq]
    /\ r = Constructed.r
    /\ initialRetryCount = Constructed.irc
    /\ timers = Constructed.timers
    /\ intervals = Constructed.intervals
    /\ log = Constructed.log
    /\ hist = Constructed.hist
    /\ backoffCall = NoBackoffCall
    /\ NoTraffic
    /\ stream \in [dataInterceptor : DataInterceptors, arrived : {<<>>},
                   enqueued : {<<>>}, errored : {FALSE}]

NextStream ==
    \/ UserFetch
    \/ \E i \in Slots : FetchReject(i)
    \/ \E i \in Slots, status \in Statuses, body \in BOOLEAN : FetchResolve(i, status, body)
    \/ \E i \in Slots, chunk \in Chunks : Transform(i, chunk)
    \/ \E i \in Slots : StreamEnd(i)

SpecStream == InitStream /\ [][NextStream]_vars

(***************************************************************************)
(* The backoff policy on its own: one policy created by                    *)
(* SimpleBackoffCalculator(options) and called with arbitrary arguments.   *)
(* backoffCall records the last call, the number of calls made with        *)
(* reconnections = -1, and the previous call of the reconnect branch.      *)
(***************************************************************************)
BackoffOptionSets ==
    [maxInitialAttempts : {0, 1, 3}, initialDelayMs : {20},
     maxDelayMs : {30000, 5000}, baseDelayMs : {1000}, baseMultiplier : {2, 3}]

InitBackoff ==
    /\ backoffOptions \in BackoffOptionSets
    /\ initialRetryCount = 0
    /\ backoffCall = NoBackoffCall
    /\ options = [inactivityTimeoutMs |-> 0, backoffCalculator |-> "default",
                  enableConnectionEvents |-> FALSE, enableDatastarSignals |-> ""]
    /\ attached = TRUE
    /\ ElementIndex = FALSE
    /\ now = 0
    /\ reqs = [i \in Slots |-> FreeReq]
    /\ r = NewFields
    /\ timers = {}
    /\ intervals = {}
    /\ log = <<>>
    /\ hist = NewHist
    /\ NoTraffic
    /\ stream = NoStream

BackoffCall(retryCount, lastStartTime, reconnections) ==
    /\ backoffCall.initialCalls < MaxBackoffCalls
    /\ LET d == SimpleBackoffCalculator(backoffOptions, initialRetryCount,
                                        retryCount, lastStartTime, reconnections)
           reconnect == backoffCall.calls > 0 /\ backoffCall.reconnections >= 0
       IN /\ initialRetryCount' = d.irc
          /\ backoffCall' =
                [retryCount |-> retryCount, lastStartTime |-> lastStartTime,
                 reconnections |-> reconnections, ret |-> d.ret,
                 calls |-> 1,
                 initialCalls |-> backoffCall.initialCalls + B2N(reconnections = -1),
                 prevRetryCount |-> IF reconnect THEN backoffCall.retryCount
                                    ELSE backoffCall.prevRetryCount,
                 prevRet |-> IF reconnect THEN backoffCall.ret
                             ELSE backoffCall.prevRet]
    /\ UNCHANGED <<options, backoffOptions, r, timers, intervals, attached,
                   ElementIndex, now, reqs, log, hist, traffic, stream>>

NextBackoff ==
    \E retryCount \in 0..MaxRetry + 1, lastStartTime \in {null, 0},
       reconnections \in -1..MaxReconnections :
        BackoffCall(retryCount, lastStartTime, reconnections)

SpecBackoff == InitBackoff /\ [][NextBackoff]_vars

(***************************************************************************)
(* Properties of the backoff policy (SpecBackoff).                         *)
(***************************************************************************)

\* C3: for a policy created with maxInitialAttempts = N > 0, the k-th call made
\* with reconnections = -1 returns initialDelayMs when k <= N and false when
\* k = N + 1, whatever retryCount and lastStartTime were passed.
C3_InitialAttempts ==
    (/\ backoffCall.calls > 0
     /\ backoffCall.reconnections = -1
     /\ backoffOptions.maxInitialAttempts > 0)
    => /\ backoffCall.initialCalls <= backoffOptions.maxInitialAttempts
            => backoffCall.ret = backoffOptions.initialDelayMs
       /\ backoffCall.initialCalls = backoffOptions.maxInitialAttempts + 1
            => backoffCall.ret = false

\* the call after the last allowed initial attempt has returned false, after a
\* call of the reconnect branch in between
C3_Witness ==
    /\ backoffCall.calls > 0
    /\ backoffCall.reconnections = -1
    /\ backoffOptions.maxInitialAttempts = 3
    /\ backoffCall.initialCalls = 4
    /\ backoffCall.retryCount = 0
    /\ backoffCall.prevRetryCount # null
    /\ backoffCall.ret = false

Range(f) == {f[i] : i \in DOMAIN f}

\* the last step handled a stopped notification with retry
JustStopped == "notifyRequestStopped(retry)" \in Range(log)

AllFree == \A i \in Slots : reqs[i].phase = "free"

\* C1: at most one reconnect timer is armed in every reachable state, and a
\* stopped notification that directly follows a stopped notification which
\* armed the timer arms no second one: exactly one timer stays armed.
C1_OneReconnectTimer ==
    /\ [](Cardinality(timers) <= 1)
    /\ [][(/\ JustStopped
           /\ "setTimeout" \in Range(log)
           /\ "notifyRequestStopped(retry)" \in Range(log'))
          => (timers' = timers /\ Cardinality(timers') = 1)]_vars

\* a stopped notification has just been handled while the timer was armed:
\* the scheduler was skipped and one timer is armed
C1_Witness ==
    /\ JustStopped
    /\ attached
    /\ "backoffCalculator:delay" \notin Range(log)
    /\ "backoffCalculator:false" \notin Range(log)
    /\ r.retryTimer # noHandle
    /\ timers = {r.retryTimer}

\* the run so far is the one of C2: default options, the element attached
\* and the controller not torn down, every request issued by the connect
\* handler, and no connection established yet
C2_Scenario ==
    /\ options.backoffCalculator = "default"
    /\ options.inactivityTimeoutMs = 0
    /\ hist.undisturbed
    /\ r.reconnections = -1

\* nothing is under way: no timer armed, no connect event waiting for its
\* handler, no request in flight
AtRest == timers = {} /\ hist.pendingConnect = 0 /\ AllFree

\* C2: with default options on an attached element, while every attempt has
\* failed and none has connected, at most maxInitialAttempts (3) connect
\* events have been dispatched; the controller comes to rest only after
\* exactly 3, and once the third attempt has failed no timer is armed.
C2_ThreeInitialAttempts ==
    C2_Scenario
    => /\ hist.connectEvents <= backoffOptions.maxInitialAttempts
       /\ AtRest => hist.connectEvents = 3
       /\ (hist.connectEvents = 3 /\ hist.pendingConnect = 0 /\ AllFree)
            => (timers = {} /\ r.retryTimer = noHandle)

\* the third attempt has failed and the policy has answered false
C2_Witness ==
    /\ C2_Scenario
    /\ AtRest
    /\ hist.connectEvents = 3
    /\ initialRetryCount = 4
    /\ "backoffCalculator:false" \in Range(log)

\* C6: with a policy that always returns false the controller is
\* disconnected after construction, never has a reconnect timer armed and
\* never dispatches a connect event; and whenever a policy returns false the
\* scheduler arms no timer and calls stopped once more, with retry disabled.
C6_FalseIsTerminal ==
    /\ options.backoffCalculator = "alwaysFalse"
        => /\ timers = {}
           /\ r.retryTimer = noHandle
           /\ hist.connectEvents = 0
           /\ hist.pendingConnect = 0
           /\ CONNECT_EVENT \notin Range(log)
           /\ (Len(log) > 0 /\ log[1] = "constructor") => ~r.connected
    /\ \A i \in DOMAIN log :
          log[i] = "backoffCalculator:false"
          => /\ i < Len(log)
             /\ log[i + 1] = "notifyRequestStopped(final)"
             /\ Cardinality({j \in DOMAIN log : log[j] = "notifyRequestStopped(final)"}) = 1
             /\ "setTimeout" \notin Range(log)
             /\ timers = {}
             /\ r.retryTimer = noHandle
             /\ ~r.connected

\* a request issued after construction has failed under the policy that
\* always returns false
C6_Witness ==
    /\ options.backoffCalculator = "alwaysFalse"
    /\ hist.userFetches > 0
    /\ r.retryCount = 2
    /\ "backoffCalculator:false" \in Range(log)

\* C8 as claimed: when the body stream of an established connection ends or
\* errors, the interceptor notifies stopped, the controller leaves the
\* connected state and a reconnect is scheduled.
C8_StreamLossNotified ==
    [][(\E i \in Slots : StreamEnd(i))
       => /\ "notifyRequestStopped(retry)" \in Range(log')
          /\ ~r'.connected]_vars

\* a step in which the response of request i has status `status`
Responded(status) ==
    \E i \in Slots, body \in BOOLEAN : FetchResolve(i, status, body)

\* the scheduler is not skipped: no timer armed, element in the document
SchedulerRuns == r.retryTimer = noHandle /\ attached

JustConstructed == Len(log) > 0 /\ log[1] = "constructor"

Armed == r.retryTimer # noHandle /\ timers = {r.retryTimer}

\* C5 as claimed: every controller constructed with the default policy has
\* its first reconnect timer armed by the constructor.
C5_EveryControllerSchedules ==
    (JustConstructed /\ options.backoffCalculator = "default") => Armed

\* C5, amended: the constructor of a controller with the default policy on an
\* element that is in the document calls stopped with retry, which asks the
\* policy once and arms the first reconnect timer; the connect event is then
\* dispatched without any notification, unless a request is started or the
\* controller is destroyed first.
C5_ConnectsOnCreation ==
    /\ [](  (JustConstructed /\ attached /\ options.backoffCalculator = "default")
          => /\ log = <<"constructor", "notifyRequestStopped(retry)",
                        "backoffCalculator:delay", "setTimeout">>
             /\ Armed
             /\ r.retryCount = 1
             /\ ~r.connected)
    /\ (JustConstructed /\ attached /\ options.backoffCalculator = "default")
         ~> \/ hist.connectEvents >= 1
            \/ r.lastStartTime # null
            \/ ~ElementIndex

\* the connect event has been dispatched and no request was ever started
C5_Witness ==
    /\ options.backoffCalculator = "default"
    /\ log = <<CONNECT_EVENT>>
    /\ hist.connectEvents = 1
    /\ r.lastStartTime = null
    /\ ElementIndex

\* a stopped notification with retry has just left the timer armed
FailureScheduled == JustStopped /\ ~JustConstructed /\ attached /\ Armed

Overdue ==
    /\ r.lastSSETime # null
    /\ now - r.lastSSETime > options.inactivityTimeoutMs

\* the stream the controller holds the abort controller of has been silent
\* for longer than the timeout, in a run in which every request was issued
\* by the connect handler on an attached, live controller
SilentStream ==
    /\ options.inactivityTimeoutMs > 0
    /\ options.backoffCalculator = "default"
    /\ hist.undisturbed
    /\ \E i \in Slots : reqs[i].phase = "streaming" /\ r.abortController = i
    /\ r.inactivityCheckInterval # noHandle
    /\ Overdue

\* C9: an inactivity check that finds more than the timeout elapsed since
\* the last data aborts the abort controller the controller holds, clears it
\* and notifies stopped with retry; and when a connected stream has been
\* silent for longer than the timeout, a connect event is eventually
\* dispatched, as long as no chunk arrives after all and the run stays one in
\* which only the connect handler issues requests on the attached, live
\* controller.
C9_InactivityReconnect ==
    /\ [][((\E h \in intervals : InactivityCheck(h)) /\ Overdue)
          => /\ r.abortController \in Slots
                 => /\ Len(log') > 0
                    /\ log'[1] = "abort"
                    /\ reqs[r.abortController].phase # "free"
                        => reqs'[r.abortController].aborted
             /\ r'.abortController = null
             /\ "notifyRequestStopped(retry)" \in Range(log')
             /\ ~r'.connected]_vars
    /\ SilentStream ~> \/ CONNECT_EVENT \in Range(log)
                       \/ "trackSSE" \in Range(log)
                       \/ ~hist.undisturbed

\* the silent stream was aborted by the monitor, the timer fired and connect
\* was dispatched while the aborted stream has not yet closed
C9_Witness ==
    /\ options.inactivityTimeoutMs > 0
    /\ hist.undisturbed
    /\ hist.chunked
    /\ r.lastStartTime < now - options.inactivityTimeoutMs
    /\ r.reconnections = 0
    /\ log = <<CONNECT_EVENT>>
    /\ \E i \in Slots : reqs[i].phase = "streaming" /\ reqs[i].aborted

(***************************************************************************)
(* The counter of successful connections (Spec).                           *)
(***************************************************************************)
\* the last step handled a connected notification
JustConnected == "notifyRequestConnected" \in Range(log)

C12_DocumentedPolicyStops ==
    (/\ options.backoffCalculator = "documented"
     /\ hist.undisturbed
     /\ r.reconnections = -1
     /\ r.retryCount > PolicyN)
    => "backoffCalculator:delay" \notin Range(log)

\* C13 as claimed: a call made by code outside the library, which does not
\* hold the key, throws and leaves the fields of the controller and its
\* timers as they were.
C13_TokenGuardsState ==
    [][(init \/ \E m \in SensitiveMethods, key \in ForeignKeys : ExternalCall(m, key))
       => /\ "throw" \in Range(log')
          /\ r' = r
          /\ timers' = timers
          /\ intervals' = intervals]_vars

\* the last step handled a stopped notification, with or without retry
StoppedNotified ==
    \/ "notifyRequestStopped(retry)" \in Range(log)
    \/ "notifyRequestStopped(final)" \in Range(log)

SignalsEnabled == options.enableDatastarSignals # ""

\* C17: every firing of the reconnect timer dispatches a connect event,
\* whatever the options; a connected (disconnected) event is dispatched by a
\* connected (stopped) notification exactly when enableConnectionEvents is
\* set, and the signal values connecting, connected and disconnected are sent
\* with the connect event and these notifications exactly when
\* enableDatastarSignals is a non-empty key.
C17_EventGating ==
    /\ [][(\E t \in timers : TimerFire(t)) => CONNECT_EVENT \in Range(log')]_vars
    /\ [](CONNECTED_EVENT \in Range(log)
            <=> (options.enableConnectionEvents /\ JustConnected))
    /\ [](DISCONNECTED_EVENT \in Range(log)
            <=> (options.enableConnectionEvents /\ StoppedNotified))
    /\ [](SendSignal("connecting") \in Range(log)
            <=> (SignalsEnabled /\ CONNECT_EVENT \in Range(log)))
    /\ [](SendSignal("connected") \in Range(log)
            <=> (SignalsEnabled /\ JustConnected))
    /\ [](SendSignal("disconnected") \in Range(log)
            <=> (SignalsEnabled /\ StoppedNotified))

\* with events enabled and no signal key, a connected notification has
\* dispatched the connected event and sent no signal
C17_Witness ==
    /\ options.enableConnectionEvents
    /\ ~SignalsEnabled
    /\ JustConnected
    /\ CONNECTED_EVENT \in Range(log)
    /\ SendSignal("connected") \notin Range(log)

(***************************************************************************)
(* Order of the notifications (Spec).                                      *)
(***************************************************************************)
\* C20 as claimed: whenever a connected or a stopped notification has been
\* handled, a started notification was handled before it.
C20_StartedPrecedes ==
    (JustConnected \/ StoppedNotified) => r.lastStartTime # null

\* C20, amended: every connected and every stopped notification that comes
\* from the interceptor or from the inactivity monitor follows the started
\* notification of its request: the request was registered by window.fetch,
\* which notifies started first, and a start time is recorded.  The stopped
\* notification the constructor issues through init() is the exception: no
\* started notification precedes it.
C20_StartedFirst ==
    /\ [](JustConstructed => (StoppedNotified /\ r.lastStartTime = null))
    /\ []((~JustConstructed /\ (JustConnected \/ StoppedNotified))
            => (r.lastStartTime # null /\ r.lastStartTime <= now))
    /\ [][("notifyRequestConnected" \in Range(log'))
          => \E i \in Slots : reqs[i].phase = "pending" /\ reqs'[i].phase # "pending"]_vars
    /\ [][("notifyRequestStopped(retry)" \in Range(log'))
          => \/ \E i \in Slots : reqs[i].phase = "pending" /\ reqs'[i].phase = "free"
             \/ (r.inactivityCheckInterval # noHandle /\ r.lastSSETime # null)]_vars

\* the inactivity monitor has stopped a request that was started before
C20_Witness ==
    /\ options.inactivityTimeoutMs > 0
    /\ StoppedNotified
    /\ Len(log) > 0
    /\ log[1] = "abort"
    /\ \E i \in Slots : reqs[i].phase = "streaming" /\ reqs[i].aborted
    /\ r.lastStartTime # null

\* C14: the call handed to the original fetch by an intercepted call that
\* carries a correlation id, in init.headers or in the headers of a Request
\* object, carries no X-Fetch-Id header
C14_HeaderStripped ==
    (sent.to = "originalFetch" /\ sent.carried > 0) => sent.header = 0

\* a call without a correlation id, with an id that has no entry, or made
\* when the element has no controller, reaches the original fetch
Unconfigured ==
    /\ sent'.to = "originalFetch"
    /\ \/ sent'.carried = 0
       \/ sent'.carried \notin FetchIdToElement
       \/ ~ElementIndex

\* a fetch action runs on an element that has no controller
BareAction ==
    \/ log' = <<"originalAction:bare">>
    \/ log' = <<"originalAction:el">> /\ ~ElementIndex

\* C15: a call with no correlation id, or whose id resolves to no element or
\* to no controller, is handed to the original fetch exactly once, with no
\* notification of the controller and no change of its state, and unmodified
\* when it has no id; the wrapped action of an element without a controller
\* calls the original action with its arguments unmodified and registers
\* no id
C15_Untouched ==
    [][/\ Unconfigured =>
            /\ log' = <<"originalFetch">>
            /\ UNCHANGED <<r, timers, intervals, reqs, signals>>
            /\ sent'.carried = 0 => ~sent'.modified
       /\ BareAction =>
            /\ sent'.to = "originalAction"
            /\ ~sent'.modified
            /\ sent'.header = 0
            /\ UNCHANGED <<FetchIdToElement, fetchCounter, fallbacks>>]_vars

\* an id that was consumed by an earlier call has been passed through, and an
\* action has run on an element without a controller
C15_Witness ==
    /\ sent.to = "originalFetch"
    /\ sent.carried > 0
    /\ sent.why = "noElement"
    /\ log = <<"originalFetch">>
    /\ fetchCounter > 0

\* C16: each correlation id resolves to its element at most once: a call
\* that carries it leaves no entry for it, a call that carries an id without
\* an entry is not managed, and every entry has a clean-up timer that is not
\* overdue, so that no entry is older than the clean-up delay
C16_SingleUse ==
    [][/\ \A id \in FetchIds : resolutions'[id] <= 1
       /\ sent'.to = "originalFetch" /\ sent'.carried > 0 =>
            /\ sent'.carried \notin FetchIdToElement'
            /\ sent'.carried \notin FetchIdToElement =>
                 /\ log' = <<"originalFetch">>
                 /\ UNCHANGED <<r, reqs, resolutions>>
       /\ \A id \in FetchIdToElement' :
            \E f \in fallbacks' : f.id = id /\ now' <= f.due
                                  /\ f.due <= now' + FallbackDelayMs
       /\ log' = <<"fallback">> => \E id \in FetchIds :
            /\ id \notin FetchIdToElement'
            /\ \A f \in fallbacks' : f.id # id]_vars

\* an id was resolved once, its clean-up timer has fired, and a later call
\* that carries it has been passed through
C16_Witness ==
    /\ \E id \in FetchIds : resolutions[id] = 1 /\ sent.carried = id
    /\ sent.to = "originalFetch"
    /\ sent.why = "noElement"
    /\ fallbacks = {}
    /\ now >= FallbackDelayMs

\* call i has just been started by a managed window.fetch
Started(i) ==
    /\ sent'.to = "originalFetch"
    /\ sent'.why = "managed"
    /\ reqs[i].phase = "free"
    /\ reqs'[i].phase = "pending"

\* C18: when the caller's own signal is already aborted as a managed call
\* starts, the internal abort controller is aborted at once and no network
\* call is attempted
C18_AbortedBeforeStart ==
    [][\A i \in Slots :
         (Started(i) /\ signals'[i].place # "none" /\ signals'[i].aborted) =>
            (reqs'[i].aborted /\ ~sent'.network)]_vars

\* C19: whenever the signal the caller supplied with a managed call aborts,
\* the internal abort controller of that call is aborted, and the caller's
\* signal changes in no step other than the caller's own abort
C19_OneDirectional ==
    [][\A i \in Slots :
         /\ (reqs[i].phase # "free" /\ signals[i].place # "none"
                /\ ~signals[i].aborted /\ signals'[i].aborted) =>
              reqs'[i].aborted
         /\ (reqs[i].phase # "free" /\ signals'[i] # signals[i]) =>
              log' = <<"callerAbort">>]_vars

(***************************************************************************)
(* The abort controller the Retryer holds, and the reconnect timer (Spec). *)
(***************************************************************************)
\* C21 as claimed: in every reachable state the abort controller the Retryer
\* holds is non-null only while the request it belongs to is in flight
\* (started, and neither stopped nor completed).
C21_HandleOnlyInFlight ==
    r.abortController # null => reqs[r.abortController].phase # "free"

\* C22: a connect event is dispatched only by the callback of the reconnect
\* timer and only while the connected flag is false; the callback clears the
\* timer and its handle and, the controller being not connected, dispatches
\* the event once; a connection that succeeds while a timer is pending
\* cancels the timer, so that no timer is armed while the flag is true.
C22_ConnectOnlyDisconnected ==
    /\ [][(CONNECT_EVENT \in Range(log'))
            => /\ ~r.connected
               /\ ~r'.connected
               /\ \E t \in timers : t \notin timers']_vars
    /\ [][(\E t \in timers : TimerFire(t))
            => /\ r'.retryTimer = noHandle
               /\ Cardinality(timers') = Cardinality(timers) - 1
               /\ IF r.connected
                  THEN CONNECT_EVENT \notin Range(log')
                  ELSE Cardinality({i \in DOMAIN log' : log'[i] = CONNECT_EVENT}) = 1]_vars
    /\ [](r.connected => (r.retryTimer = noHandle /\ timers = {}))

\* a connection has succeeded while a reconnect timer was pending: the
\* connected notification cancelled the timer
C22_Witness ==
    /\ JustConnected
    /\ "clearTimeout" \in Range(log)
    /\ r.connected
    /\ timers = {}

\* C23: in the state destroy() leaves, the index has no controller for the
\* element, no reconnect timer is armed and no inactivity check is active:
\* both handles are cleared and the event loop holds neither timer.
C23_DestroyedIsQuiet ==
    "destroy" \in Range(log)
    => /\ ~ElementIndex
       /\ r.retryTimer = noHandle
       /\ r.inactivityCheckInterval = noHandle
       /\ timers = {}
       /\ intervals = {}

\* destroy() was called while a request was in flight and the inactivity
\* monitor was running
C23_Witness ==
    /\ "destroy" \in Range(log)
    /\ "clearInterval" \in Range(log)
    /\ \E i \in Slots : reqs[i].phase # "free"
    /\ options.inactivityTimeoutMs > 0

(***************************************************************************)
(* The chunks of a response body (SpecStream).                             *)
(***************************************************************************)
\* what the hook of the stream answers for the k-th chunk that arrived
Answer(k) == dataInterceptor(stream.dataInterceptor, stream.arrived[k])

\* C24: the k-th chunk enqueued downstream is what the data hook returned
\* for the k-th chunk that arrived when that is neither undefined nor null,
\* and the k-th chunk itself when the hook returned undefined or null or no
\* hook is set: one output per input, in the order of arrival.  (A hook that
\* throws returns nothing at all: the stream is errored and its chunk is not
\* enqueued.)
C24_ChunkForwarding ==
    /\ ~stream.errored =>
         /\ Len(stream.enqueued) = Len(stream.arrived)
         /\ \A k \in DOMAIN stream.arrived :
              stream.enqueued[k] =
                 IF stream.dataInterceptor = "none" THEN stream.arrived[k]
                 ELSE IF Answer(k) = "undefined" \/ Answer(k) = "null"
                 THEN stream.arrived[k]
                 ELSE Answer(k)
    /\ stream.errored =>
         /\ stream.dataInterceptor = "throws"
         /\ Len(stream.enqueued) = Len(stream.arrived) - 1

\* a hook that answers undefined for the first chunk and a new chunk for the
\* second: the first was forwarded as it came, the second replaced
C24_Witness ==
    /\ stream.dataInterceptor = "selective"
    /\ stream.arrived = <<"a", "b">>
    /\ stream.enqueued = <<"a", "data:b">>

(***************************************************************************)
(* The wrapped action (SpecIntercept).                                     *)
(***************************************************************************)
\* the last step ran the wrapped action on the element of a live controller
ManagedAction == log = <<"originalAction:el">> /\ ElementIndex

\* C25: for an element with a controller the wrapped action calls the
\* original action with retryMaxCount = 0; when the original action rejects
\* with an error whose message starts with "FetchFailed" the wrapped action
\* resolves with undefined, and any other error, like any value, reaches the
\* caller as it is.
C25_RetryDisabledErrorSuppressed ==
    ManagedAction
    => /\ sent.to = "originalAction"
       /\ sent.retryMaxCount = 0
       /\ sent.outcome = "FetchFailed" => sent.result = "undefined"
       /\ sent.outcome = "error" => sent.result = "error"
       /\ sent.outcome = "value" => sent.result = "value"

\* the original action of an element with a controller has rejected with
\* another error than FetchFailed, which reached the caller
C25_Witness ==
    /\ ManagedAction
    /\ sent.outcome = "error"
    /\ sent.result = "error"
    /\ sent.retryMaxCount = 0

(***************************************************************************)
(* The notifications of the interceptor and the retry count (Spec).        *)
(***************************************************************************)
\* the original fetch of request i settles in this step
Settles(i) == reqs[i].phase = "pending" /\ reqs'[i].phase # "pending"

\* how often the step logged the call or dispatch op
Times(op) == Cardinality({k \in DOMAIN log' : log'[k] = op})

\* C26: when the original fetch of a managed call settles, the interceptor
\* notifies the controller exactly once: connected, and nothing is thrown,
\* if the fetch resolved with a response the failure predicate accepts
\* (status below 400); otherwise stopped with retry, after which the error is
\* thrown to the caller and the request is over.
C26_OneNotificationPerSettle ==
    [][\A i \in Slots :
         Settles(i)
         => /\ Times("notifyRequestConnected") + Times("notifyRequestStopped(retry)") = 1
            /\ Times("notifyRequestConnected") = 1
                 => (Times("throw e") = 0 /\ r'.connected)
            /\ Times("notifyRequestStopped(retry)") = 1
                 => /\ Times("throw e") = 1
                    /\ log'[Len(log')] = "throw e"
                    /\ reqs'[i].phase = "free"
                    /\ ~r'.connected
            /\ \A status \in Statuses :
                 (\E body \in BOOLEAN : FetchResolve(i, status, body))
                 => (Times("notifyRequestConnected") = 1 <=> status < 400)
            /\ FetchReject(i) => Times("notifyRequestStopped(retry)") = 1]_vars

\* a response with status 503 has been rejected by the failure predicate:
\* the request was aborted, stopped was notified and the error thrown
C26_Witness ==
    /\ Len(log) >= 3
    /\ log[1] = "abort"
    /\ log[2] = "notifyRequestStopped(retry)"
    /\ log[Len(log)] = "throw e"
    /\ r.reconnections >= 0

\* the step asked the backoff policy for a delay
PolicyAsked == Times("backoffCalculator:delay") + Times("backoffCalculator:false") > 0

JustStarted == "notifyRequestStarted" \in Range(log)

\* C28: in the state a started notification leaves no reconnect timer is
\* armed: the handle is cleared and every timer the event loop held before
\* the notification is cancelled, so none of them can dispatch connect.
C28_StartSupersedesRetry ==
    /\ [](JustStarted => (r.retryTimer = noHandle /\ timers = {}))
    /\ [][("notifyRequestStarted" \in Range(log'))
            => \A t \in timers :
                 /\ t \notin timers'
                 /\ "clearTimeout" \in Range(log')]_vars

\* a request was started while a reconnect timer was armed after a failure
C28_Witness ==
    /\ JustStarted
    /\ "clearTimeout" \in Range(log)
    /\ hist.stopped
    /\ r.retryCount >= 2

\* C29: a stopped notification with retry that finds no timer armed and the
\* element outside the document leaves retryCount and the state of the
\* policy as they were, asks the policy nothing, arms no timer and dispatches
\* no connect event; so does the constructor on such an element.
C29_DetachedSchedulerNoOp ==
    /\ []((JustConstructed /\ ~attached)
            => (r.retryCount = 0 /\ timers = {} /\ r.retryTimer = noHandle
                /\ initialRetryCount = 0))
    /\ [][("notifyRequestStopped(retry)" \in Range(log') /\ ~attached)
            => /\ r'.retryCount = r.retryCount
               /\ initialRetryCount' = initialRetryCount
               /\ ~PolicyAsked
               /\ Times("setTimeout") = 0
               /\ timers' = timers
               /\ r'.retryTimer = r.retryTimer
               /\ Times(CONNECT_EVENT) = 0]_vars

\* a request failed after its element had left the document: retryCount is
\* what the constructor left and no timer is armed
C29_Witness ==
    /\ ~attached
    /\ log = <<"notifyRequestStopped(retry)", "throw e">>
    /\ r.retryTimer = noHandle
    /\ timers = {}
    /\ r.lastStartTime # null

\* the last step was destroy()
JustDestroyed == "destroy" \in Range(log)

\* C30: the event loop holds at most one inactivity interval of the
\* controller, the one whose handle the controller stores; an interval is
\* created only by a started notification and only when inactivityTimeoutMs
\* is positive, and none is active in the state a stopped notification or
\* destroy() leaves; with inactivityTimeoutMs = 0 no interval ever exists, so
\* the inactivity check never runs and never aborts or stops anything.
C30_OneInactivityMonitor ==
    /\ [](/\ Cardinality(intervals) <= 1
          /\ intervals = IF r.inactivityCheckInterval = noHandle
                         THEN {}
                         ELSE {r.inactivityCheckInterval})
    /\ [](intervals # {} => (options.inactivityTimeoutMs > 0 /\ r.lastStartTime # null))
    /\ []((StoppedNotified \/ JustDestroyed) => intervals = {})
    /\ [][(intervals' # intervals /\ intervals' # {})
            => "notifyRequestStarted" \in Range(log')]_vars
    /\ [][(\E h \in intervals : InactivityCheck(h))
            => options.inactivityTimeoutMs > 0]_vars
    /\ [](options.inactivityTimeoutMs = 0
            => (intervals = {} /\ r.inactivityCheckInterval = noHandle))

\* a second request was started while the monitor of the first was running:
\* the interval was replaced
C30_Witness ==
    /\ JustStarted
    /\ "clearInterval" \in Range(log)
    /\ "setInterval" \in Range(log)
    /\ Cardinality(intervals) = 1
    /\ \A i \in Slots : reqs[i].phase # "free"

\* the last step was an inactivity check that found the stream silent for
\* too long while an abort controller was stored
MonitorAborts ==
    /\ Len(log') > 0
    /\ log'[1] = "abort"
    /\ \A i \in Slots : reqs'[i].phase = reqs[i].phase

\* C31: the controller stores at most one abort controller: a new one is
\* stored only by the start of a request, whose own it is, so the stored one
\* is always that of the most recently started request; the inactivity
\* monitor clears it in the step that aborts it, aborts nothing else and
\* aborts once per step, so no abort controller is aborted twice; and in the
\* state a stopped notification leaves none is stored.
C31_SingleUseHandle ==
    /\ [](r.abortController \in Slots \cup {null})
    /\ [](StoppedNotified => r.abortController = null)
    /\ [][(r'.abortController # r.abortController /\ r'.abortController # null)
          => /\ "notifyRequestStarted" \in Range(log')
             /\ reqs[r'.abortController].phase = "free"
             /\ reqs'[r'.abortController].phase = "pending"]_vars
    /\ [][MonitorAborts
          => /\ r.abortController # null
             /\ r'.abortController = null
             /\ Times("abort") = 1
             /\ \A i \in Slots :
                  reqs'[i].aborted # reqs[i].aborted => i = r.abortController]_vars

\* two requests overlap and the inactivity monitor has aborted one of them,
\* the one started last, and holds no abort controller any more
C31_Witness ==
    /\ Len(log) > 0
    /\ log[1] = "abort"
    /\ StoppedNotified
    /\ r.abortController = null
    /\ \A i \in Slots : reqs[i].phase # "free"
    /\ Cardinality({i \in Slots : reqs[i].aborted}) = 1

\* C32 as claimed: the time of the last data is null whenever inactivity
\* tracking is disabled and whenever the controller is disconnected.
C32_NullWhenIdle ==
    (options.inactivityTimeoutMs = 0 \/ ~r.connected) => r.lastSSETime = null

\* C32, amended: the time of the last data is null when the constructor
\* returns and in the state every stopped notification leaves; every started
\* notification sets it to the current time, whether inactivity tracking is
\* enabled or not and although the controller is not connected yet; a chunk
\* sets it to the current time only when inactivityTimeoutMs is positive, so
\* with tracking disabled it is null or the start time of the last request;
\* nothing else changes it.
C32_LastDataLifecycle ==
    /\ []((JustConstructed \/ StoppedNotified) => r.lastSSETime = null)
    /\ [](JustStarted => (r.lastSSETime = now /\ r.lastStartTime = now))
    /\ []((options.inactivityTimeoutMs = 0 /\ r.lastSSETime # null)
            => r.lastSSETime = r.lastStartTime)
    /\ [][r'.lastSSETime # r.lastSSETime
          => \/ "notifyRequestStarted" \in Range(log')
             \/ /\ r'.lastSSETime = null
                /\ \/ "notifyRequestStopped(retry)" \in Range(log')
                   \/ "notifyRequestStopped(final)" \in Range(log')
             \/ /\ "trackSSE" \in Range(log')
                /\ options.inactivityTimeoutMs > 0
                /\ r'.lastSSETime = now]_vars

\* a request was started with inactivity tracking disabled: the controller
\* is not connected and the time of the last data is set
C32_Witness ==
    /\ options.inactivityTimeoutMs = 0
    /\ JustStarted
    /\ ~r.connected
    /\ r.lastSSETime # null

\* C33: while a reconnect timer is armed (the controller stores its handle,
\* or the event loop holds it) the connected flag is false: a timer is armed
\* only in a step that handles a stopped notification with retry, which
\* clears the flag, and the step that handles a connected notification
\* leaves no timer.
C33_ArmedImpliesDisconnected ==
    /\ []((r.retryTimer # noHandle \/ timers # {}) => ~r.connected)
    /\ [][(timers' \ timers # {})
          => /\ "notifyRequestStopped(retry)" \in Range(log')
             /\ "setTimeout" \in Range(log')
             /\ ~r'.connected]_vars
    /\ [][(r'.connected /\ ~r.connected)
          => (timers' = {} /\ r'.retryTimer = noHandle)]_vars

\* after a connection had succeeded, a failure has armed the reconnect timer
\* and the controller is marked disconnected
C33_Witness ==
    /\ Armed
    /\ "setTimeout" \in Range(log)
    /\ r.reconnections >= 0
    /\ ~r.connected

\* C34: when two requests of the controller overlap and the fetch of the
\* earlier one rejects, the stopped notification leaves what the later
\* request set up: the connected flag, the stored abort controller (the
\* later request's) and the inactivity interval.
C34_LaterRequestIntact ==
    [][\A i, j \in Slots :
         (/\ i # j
          /\ reqs[j].phase # "free"
          /\ r.abortController = j
          /\ FetchReject(i))
         => /\ r'.connected = r.connected
            /\ r'.abortController = j
            /\ intervals' = intervals]_vars

\* request i is in flight: started, and neither connected nor stopped has
\* been notified for it (an aborted request was stopped by the monitor)
InFlight(i) == reqs[i].phase = "pending" /\ ~reqs[i].aborted

\* C35: no connect event is dispatched while a request of the controller is
\* in flight.
C35_NoConnectWhileInFlight ==
    [][(CONNECT_EVENT \in Range(log')) => \A i \in Slots : ~InFlight(i)]_vars

\* a controller with the default policy that has connected at least once, is
\* registered and attached, has just been notified stopped with retry
StoppedAfterConnection ==
    /\ options.backoffCalculator = "default"
    /\ r.reconnections >= 0
    /\ JustStopped
    /\ attached
    /\ ElementIndex

\* C36 as claimed: with the default policy, every stopped notification with
\* retry that follows a successful connection, on an attached and registered
\* controller, is eventually followed by a connect event, as long as the
\* controller is not destroyed.
C36_AlwaysConnectAgain ==
    StoppedAfterConnection ~> (CONNECT_EVENT \in Range(log) \/ ~ElementIndex)

\* C36, amended: with the default policy, once a connection has succeeded the
\* policy never returns false: no stopped notification without retry occurs,
\* and every stopped notification with retry on an attached and registered
\* controller leaves the reconnect timer armed, however many failures came
\* before; a connect event is then eventually dispatched unless a connection
\* is established, a new request is started or the controller is destroyed
\* first.
C36_NeverGivesUp ==
    /\ []((options.backoffCalculator = "default" /\ r.reconnections >= 0)
          => /\ "backoffCalculator:false" \notin Range(log)
             /\ "notifyRequestStopped(final)" \notin Range(log))
    /\ [](StoppedAfterConnection => Armed)
    /\ StoppedAfterConnection ~> \/ CONNECT_EVENT \in Range(log)
                                 \/ r.connected
                                 \/ "notifyRequestStarted" \in Range(log)
                                 \/ "destroy" \in Range(log)

\* after a connection, failure has followed failure up to the largest count
\* explored, and the timer of the last one has dispatched connect
C36_Witness ==
    /\ options.backoffCalculator = "default"
    /\ r.reconnections >= 0
    /\ r.retryCount = MaxRetry
    /\ log = <<CONNECT_EVENT>>
    /\ ~r.connected

\* a fetch action has just been given a correlation id
Issued == log' = <<"originalAction:el">> /\ sent'.why = "managed"

C38_DestroyedStaysQuiet ==
    /\ [](~ElementIndex => (timers = {} /\ r.retryTimer = noHandle))
    /\ [][~ElementIndex => CONNECT_EVENT \notin Range(log')]_vars

\* C39: with enableConnectionEvents on, the step in which the fetch of a
\* request fails (the catch block runs) dispatches exactly one disconnected
\* event, and sends exactly one "disconnected" signal when signals are
\* enabled too; when the inactivity monitor has already aborted the request
\* and announced the failure, the catch block announces nothing more.
C39_OneDisconnectedPerFailure ==
    [][\A i \in Slots :
         (/\ options.enableConnectionEvents
          /\ Settles(i)
          /\ "throw e" \in Range(log'))
         => LET n == IF reqs[i].aborted THEN 0 ELSE 1
            IN /\ Times(DISCONNECTED_EVENT) = n
               /\ SignalsEnabled => Times(SendSignal("disconnected")) = n]_vars

====
